---- MODULE Spec2Model ----
(***************************************************************************)
(* Model of main.py: the poll loop of main(), the new-post filter, the     *)
(* per-post pipeline (scrape_details, translate, post_to_discord,          *)
(* save_last_id) and StateManager's last_id.txt.                           *)
(*                                                                         *)
(* Strings are sequences of character codes: 0..9 stand for the digits     *)
(* '0'..'9' and NonDigit for a letter (which, as in ASCII, sorts after     *)
(* every digit).  Python's None is the value None below.                   *)
(*                                                                         *)
(* Spec is the whole loop with restarts, over short snapshots of posts     *)
(* with one fixed content.  FilterSpec is one fetch and filter over longer *)
(* snapshots.  PipelineSpec is the for loop over one batch, with the       *)
(* content of the pages, the scrape and the translation service free.      *)
(***************************************************************************)
EXTENDS Integers, Sequences, FiniteSets, TLC

VARIABLES
    pc,               \* position of the process in main()
    FORCE_REPROCESS,  \* the environment flag read at import time
    state_file,       \* content of last_id.txt, None when the file is missing
    check_last_id,    \* main's in-memory last processed id
    posts,            \* the snapshot of this cycle, after posts.reverse()
    new_posts,        \* the new-set of this cycle
    idx,              \* index in new_posts of the post being processed
    attempts,         \* webhook.execute() calls made for the current post
    outcome,          \* answer of the sink to the first of them
    exit_cause,       \* why main() was left
    cycle,            \* number of monitor_feed calls made so far
    runs,             \* number of process starts so far
    env,              \* what the environment is left free in: "loop", "filter" or "pipeline"
    \* the post being processed
    stage1,           \* its Stage-1 fields, as monitor_feed extracted them
    details,          \* what scrape_details returned for it
    post,             \* the post dict after the merge
    full_input,       \* the prompt main built for it, "" when there is none
    translated,       \* what main passes to post_to_discord as translated_text
    sent,             \* the embed post_to_discord built for it
    \* history, kept for the properties only
    delivered,        \* ids passed to post_to_discord in this run
    failed_ids,       \* ids whose delivery failed with a non-rate-limit outcome (this run)
    unsaved_ids,      \* ids whose save_last_id failed (this run)
    handed,           \* ids passed to save_last_id in this run
    load_failed,      \* load_last_id could not read an existing last_id.txt (this run)
    fetch_failed,     \* this cycle's monitor_feed call failed or timed out
    repeat,           \* "same" when this cycle's snapshot equals the previous cycle's
    past,             \* ids passed to post_to_discord in earlier runs
    crash_x,          \* id delivered but not persisted when the previous run stopped
    crash_state,      \* content of last_id.txt at that moment
    feed_desc,        \* every snapshot so far listed its cards in strictly descending id order
    scrape_failed,    \* the scrape_details call for the post being processed failed
    service_called,   \* client.messages.create was called for the post being processed
    service_failed,   \* and that call raised
    \* inside monitor_feed and scrape_details
    call,             \* position inside the call, "none" outside
    browsers,         \* number of live browser instances
    alarm,            \* the SIGALRM timer: "armed" or "off"
    handler,          \* the handler that raises TimeoutError is installed
    extracted,        \* the call has assigned what page.evaluate returned
    expired           \* the timer has expired in this run (history)

vars == << pc, FORCE_REPROCESS, state_file, check_last_id, posts, new_posts, idx,
           attempts, outcome, exit_cause, cycle, runs, env,
           stage1, details, post, full_input, translated, sent, scrape_failed,
           service_called, service_failed,
           delivered, failed_ids, unsaved_ids, handed, load_failed, fetch_failed, repeat,
           past, crash_x, crash_state, feed_desc,
           call, browsers, alarm, handler, extracted, expired >>

prog == << posts, new_posts, idx, attempts, outcome >>
hist == << delivered, failed_ids, unsaved_ids, handed, load_failed >>
pipe == << stage1, details, post, full_input, translated, sent, scrape_failed,
          service_called, service_failed >>
watch == << call, browsers, alarm, handler, extracted, expired >>

----------------------------------------------------------------------------
(* Bounds *)

MaxFeed == 2
MaxCycles == 2
MaxRuns == 2
MaxFilterFeed == 6

----------------------------------------------------------------------------
(* Values *)

None == << -1 >>
NonDigit == 10
NoInt == -1

\* post ids as the feed's URL regexp /posts\/(\d+)/ yields them: "5", "9", "10"
Ids == { <<5>>, <<9>>, <<1, 0>> }

\* what last_id.txt may hold before the first run: missing, empty, non-numeric, an id
InitialFiles == { None, << >>, << NonDigit >>, <<5>>, <<9>> }

SeqSet(s) == { s[i] : i \in 1..Len(s) }

\* the sequences of at most n distinct elements of S
RECURSIVE SeqsUpTo(_, _)
SeqsUpTo(S, n) ==
    IF n = 0 THEN { << >> }
    ELSE LET shorter == SeqsUpTo(S, n - 1)
         IN  shorter \cup
             UNION { { Append(s, x) : x \in S \ SeqSet(s) } :
                     s \in { t \in shorter : Len(t) = n - 1 } }

\* the card lists monitor_feed may return, in the order the page lists the cards
\* (each post is listed once; [] when the fetch failed)
Snapshots == { s \in SeqsUpTo(Ids, MaxFeed) : Cardinality(SeqSet(s)) = Len(s) }

\* longer card lists, with more ids ("0" among them), for the filter
FilterIds == Ids \cup { << 0 >>, << 1, 1 >>, << 2, 0 >> }

FilterSnapshots ==
    { s \in SeqsUpTo(FilterIds, MaxFilterFeed) : Cardinality(SeqSet(s)) = Len(s) }

\* the card lists the feed page may show
Feeds(e) == IF e = "filter" THEN FilterSnapshots ELSE Snapshots

----------------------------------------------------------------------------
(* Pure helpers of main() *)

\* Python truthiness of an optional string
Truthy(v) == v # None /\ v # << >>

IsDigits(s) == s # None /\ Len(s) > 0 /\ \A i \in 1..Len(s) : s[i] \in 0..9

RECURSIVE DecVal(_)
DecVal(s) == IF s = << >> THEN 0 ELSE 10 * DecVal(SubSeq(s, 1, Len(s) - 1)) + s[Len(s)]

\* def to_int(val): try int(val) except: None
to_int(val) == IF IsDigits(val) THEN DecVal(val) ELSE NoInt

\* Python truthiness of an optional int: None and 0 are false
IntTruthy(n) == n # NoInt /\ n # 0

\* Python's a < b on strings
RECURSIVE StrLt(_, _)
StrLt(a, b) ==
    IF b = << >> THEN FALSE
    ELSE IF a = << >> THEN TRUE
    ELSE IF a[1] < b[1] THEN TRUE
    ELSE IF a[1] > b[1] THEN FALSE
    ELSE StrLt(Tail(a), Tail(b))

\* posts.reverse()
Reverse(s) == [ i \in 1..Len(s) |-> s[Len(s) + 1 - i] ]

\* posts[-n:]
LastN(s, n) == IF Len(s) <= n THEN s ELSE SubSeq(s, Len(s) - n + 1, Len(s))

\* a test that compares the two ids as strings only
IsNew_Lexicographic(id, last) == StrLt(last, id)

\* the test of the normal-operation branch for one post
IsNew(id, last) ==
    LET last_id_int == to_int(last)
        post_id_int == to_int(id)
    IN  IF IntTruthy(last_id_int) /\ IntTruthy(post_id_int)
        THEN post_id_int > last_id_int
        ELSE StrLt(last, id)

\* a new-set that keeps only the last of the newer posts of the snapshot
NewPosts_NewestOnly(ps, last, force) ==
    IF ~Truthy(last)
    THEN IF ps # << >>
         THEN IF force THEN LastN(ps, 5) ELSE << ps[Len(ps)] >>
         ELSE << >>
    ELSE LastN(SelectSeq(ps, LAMBDA p : IsNew(p, last)), 1)

\* the new-set of one cycle
NewPosts(ps, last, force) ==
    IF ~Truthy(last)
    THEN IF ps # << >>
         THEN IF force THEN LastN(ps, 5) ELSE << ps[Len(ps)] >>
         ELSE << >>
    ELSE SelectSeq(ps, LAMBDA p : IsNew(p, last))

\* StateManager.load_last_id: the stripped file content, None when missing or unreadable
load_last_id(file, readable) == IF file # None /\ readable THEN file ELSE None

\* a monitor_feed that returns cards whether or not the fetch failed
monitor_feed_KeepsCards(cards, fails) == cards

\* HybridScraper.monitor_feed: the cards extracted from the page; posts stays []
\* when the browser, the navigation, the selector wait or the watchdog fails
monitor_feed(cards, fails) == IF fails THEN << >> ELSE cards

\* the cards are listed newest first, as main's comment assumes
Descending(s) == \A i \in 1..(Len(s) - 1) : to_int(s[i]) > to_int(s[i + 1])

----------------------------------------------------------------------------
(* Text.  The content of a post, a prompt and a notification body are       *)
(* sequences of one-character strings; a media or video URL is one string.  *)

\* the markers main() puts into the translation prompt
SHARED_CONTENT ==
    << "[", "S", "H", "A", "R", "E", "D", "_", "C", "O", "N", "T", "E", "N", "T", "]" >>

LINK_PREVIEW ==
    << "\n", "[", "L", "I", "N", "K", "_", "P", "R", "E", "V", "I", "E", "W", "]" >>

\* the schemes of the pattern https?://[^\s]+
HTTPS ==
    << "h", "t", "t", "p", "s", ":", "/", "/" >>

HTTP ==
    << "h", "t", "t", "p", ":", "/", "/" >>

\* the tail post_to_discord puts after a cut original text, and after a cut description
CONTINUE_AT_SOURCE ==
    << ".", ".", ".", " ", "[", "t", "o", "v", "á", "b", "b", " ", "a", "z", " ", "e", "r",
       "e", "d", "e", "t", "i", " ", "l", "i", "n", "k", "e", "n", "]" >>

ELLIPSIS == << ".", ".", "." >>

\* the lines post_to_discord puts before an untranslated retruth
BOLD == << "*", "*" >>

RULE == << "-", "-", "-" >>

\* no media, no video (Python's None for a URL)
NoUrl == "None"

\* the numbers of has_translatable_content and post_to_discord
MIN_TRANSLATABLE == 10
ORIGINAL_BUDGET == 1800
DESCRIPTION_LIMIT == 4096
DESCRIPTION_CUT == 4093

\* what Python's str.strip() and the pattern's \s take for whitespace
IsSpace(c) == c \in { " ", "\n", "\t" }

RECURSIVE lstrip(_)
lstrip(s) == IF s # << >> /\ IsSpace(s[1]) THEN lstrip(Tail(s)) ELSE s

RECURSIVE rstrip(_)
rstrip(s) ==
    IF s # << >> /\ IsSpace(s[Len(s)]) THEN rstrip(SubSeq(s, 1, Len(s) - 1)) ELSE s

\* text.strip()
strip(s) == lstrip(rstrip(s))

\* "\n".join(parts)
RECURSIVE Join(_)
Join(parts) ==
    IF parts = << >> THEN << >>
    ELSE IF Len(parts) = 1 THEN parts[1]
    ELSE parts[1] \o << "\n" >> \o Join(Tail(parts))

StartsWith(s, prefix) == Len(s) >= Len(prefix) /\ SubSeq(s, 1, Len(prefix)) = prefix

\* the number of leading characters of s that are not whitespace
RECURSIVE NonSpaceRun(_)
NonSpaceRun(s) == IF s = << >> \/ IsSpace(s[1]) THEN 0 ELSE 1 + NonSpaceRun(Tail(s))

\* the length of the match of https?://[^\s]+ at the start of s, 0 when there is none
UrlMatchLen(s) ==
    LET scheme == IF StartsWith(s, HTTPS) THEN Len(HTTPS)
                  ELSE IF StartsWith(s, HTTP) THEN Len(HTTP)
                  ELSE 0
        rest   == NonSpaceRun(SubSeq(s, scheme + 1, Len(s)))
    IN  IF scheme > 0 /\ rest > 0 THEN scheme + rest ELSE 0

\* re.sub(r'https?://[^\s]+', '', text)
RECURSIVE re_sub_urls(_)
re_sub_urls(s) ==
    IF s = << >> THEN << >>
    ELSE IF UrlMatchLen(s) > 0 THEN re_sub_urls(SubSeq(s, UrlMatchLen(s) + 1, Len(s)))
    ELSE << s[1] >> \o re_sub_urls(Tail(s))

\* Translator.clean_text
clean_text(text) == IF text = << >> THEN << >> ELSE strip(text)

\* Translator.has_translatable_content
has_translatable_content(text) ==
    IF text = << >> THEN FALSE
    ELSE Len(strip(re_sub_urls(text))) >= MIN_TRANSLATABLE

\* translate_to_hungarian reaches client.messages.create for this input
calls_service(text) ==
    clean_text(text) # << >> /\ has_translatable_content(clean_text(text))

\* Translator.translate_to_hungarian; answer is what the service does when called:
\* it returns reply, or it raises
translate_to_hungarian(text, answer, reply) ==
    IF clean_text(text) = << >> THEN << >>
    ELSE IF ~has_translatable_content(clean_text(text)) THEN << >>
    ELSE IF answer = "error" THEN clean_text(text)
    ELSE strip(reply)

----------------------------------------------------------------------------
(* The footer of the embed: post_to_discord, lines 431-451 *)

\* the classes [A-Za-z], \d and [AP] of the timestamp pattern
LETTERS ==
    { "A", "B", "C", "D", "E", "F", "G", "H", "I", "J", "K", "L", "M", "N", "O", "P",
      "Q", "R", "S", "T", "U", "V", "W", "X", "Y", "Z", "a", "b", "c", "d", "e", "f",
      "g", "h", "i", "j", "k", "l", "m", "n", "o", "p", "q", "r", "s", "t", "u", "v",
      "w", "x", "y", "z" }

DIGITS ==
    { "0", "1", "2", "3", "4", "5", "6", "7", "8", "9" }

AM_PM == { "A", "P" }

\* one item of a pattern: between min and max characters of class
Item(class, min, max) == [ class |-> class, min |-> min, max |-> max ]

Lit(c) == Item({ c }, 1, 1)

\* [A-Za-z]+ \d{1,2}, \d{4} @ \d{1,2}:\d{2} [AP]M ET
\* (the + is bounded by the length of the text searched)
TIMESTAMP_PATTERN(n) ==
    << Item(LETTERS, 1, n), Lit(" "), Item(DIGITS, 1, 2), Lit(","), Lit(" "),
       Item(DIGITS, 4, 4), Lit(" "), Lit("@"), Lit(" "), Item(DIGITS, 1, 2), Lit(":"),
       Item(DIGITS, 2, 2), Lit(" "), Item(AM_PM, 1, 1), Lit("M"), Lit(" "), Lit("E"),
       Lit("T") >>

\* no match
NoMatch == -1

\* the number of characters of s from position k on that are in class, up to max
RECURSIVE RunLen(_, _, _, _)
RunLen(s, k, class, max) ==
    IF max = 0 \/ k > Len(s) \/ s[k] \notin class THEN 0
    ELSE 1 + RunLen(s, k + 1, class, max - 1)

\* the regex engine at position k: the position after the match of pat, the
\* items taking as many characters as they can and giving back one at a time
RECURSIVE MatchEnd(_, _, _)
RECURSIVE MatchItem(_, _, _, _)
MatchItem(s, k, pat, n) ==
    IF n < pat[1].min THEN NoMatch
    ELSE LET rest == MatchEnd(s, k + n, Tail(pat))
         IN  IF rest # NoMatch THEN rest ELSE MatchItem(s, k, pat, n - 1)

MatchEnd(s, k, pat) ==
    IF pat = << >> THEN k
    ELSE MatchItem(s, k, pat, RunLen(s, k, pat[1].class, pat[1].max))

\* re.search: the leftmost position where the pattern matches, 0 when none does
RECURSIVE SearchFrom(_, _, _)
SearchFrom(s, k, pat) ==
    IF k > Len(s) THEN 0
    ELSE IF MatchEnd(s, k, pat) # NoMatch THEN k
    ELSE SearchFrom(s, k + 1, pat)

re_search(s, pat) == SearchFrom(s, 1, pat)

\* match.group(1)
group1(s, pat) ==
    LET k == re_search(s, pat)
    IN  SubSeq(s, k, MatchEnd(s, k, pat) - 1)

\* the text before the time in the footer; its first character is the robot
\* emoji U+1F916, written by its code point
FOOTER_PREFIX ==
    << "U+1F916", " ", "G", "e", "n", "e", "r", "a", "t", "e", "d", " ", "b", "y", " ", "T",
       "o", "t", "M", " ", "A", "I", "\n", "p", "o", "s", "t", "e", "d", " ", "o", "n",
       " ", "T", "r", "u", "t", "h", ":", " " >>

\* " (Gen)"
GENERATED ==
    << " ", "(", "G", "e", "n", ")" >>

\* datetime.now(budapest_tz).strftime("%Y.%m.%d. %H:%M") at the time of a delivery
BUDAPEST_TIME ==
    << "2", "0", "2", "6", ".", "1", "1", ".", "0", "1", ".", " ", "0", "9", ":", "3",
       "0" >>

\* the text of embed.set_footer: lines 432-451
footer(timestamp_str, budapest_time) ==
    LET pat == TIMESTAMP_PATTERN(Len(timestamp_str))
        clean_time == IF timestamp_str # << >> /\ re_search(timestamp_str, pat) # 0
                      THEN group1(timestamp_str, pat)
                      ELSE timestamp_str
    IN  IF clean_time # << >>
        THEN FOOTER_PREFIX \o clean_time
        ELSE FOOTER_PREFIX \o budapest_time \o GENERATED

----------------------------------------------------------------------------
(* The per-post pipeline of main() *)

\* the record scrape_details starts from, returned as it is when the scrape fails
ZeroDetails ==
    [ is_retruth |-> FALSE, retruth_header |-> << >>, full_text |-> << >>,
      media_urls |-> << >>, video_url |-> NoUrl, card_content |-> << >> ]

\* a scrape_details that returns what the page holds whether or not the scrape failed
scrape_details_KeepsPage(page, fails) == page

\* HybridScraper.scrape_details: details.update(evaluated) is reached only when
\* the browser, the navigation, the selector wait and the extraction succeed
scrape_details(page, fails) == IF fails THEN ZeroDetails ELSE page

\* a merge that takes full_text when it is as long as the Stage-1 content
merge_NotShorter(card, d) ==
    [ content        |-> IF d.full_text # << >> /\ Len(d.full_text) >= Len(card.content)
                         THEN d.full_text
                         ELSE card.content,
      media_urls     |-> IF d.media_urls # << >> THEN d.media_urls ELSE card.media_urls,
      is_retruth     |-> d.is_retruth,
      retruth_header |-> IF d.is_retruth THEN d.retruth_header ELSE << >>,
      video_url      |-> d.video_url,
      timestamp_str  |-> card.timestamp_str ]

\* a merge that appends the Stage-1 media to the detail media
merge_UnionMedia(card, d) ==
    [ content        |-> IF d.full_text # << >> /\ Len(d.full_text) > Len(card.content)
                         THEN d.full_text
                         ELSE card.content,
      media_urls     |-> d.media_urls \o card.media_urls,
      is_retruth     |-> d.is_retruth,
      retruth_header |-> IF d.is_retruth THEN d.retruth_header ELSE << >>,
      video_url      |-> d.video_url,
      timestamp_str  |-> card.timestamp_str ]

\* the merge of main(): lines 608-632
merge(card, d) ==
    [ content        |-> IF d.full_text # << >> /\ Len(d.full_text) > Len(card.content)
                         THEN d.full_text
                         ELSE card.content,
      media_urls     |-> IF d.media_urls # << >> THEN d.media_urls ELSE card.media_urls,
      is_retruth     |-> d.is_retruth,
      retruth_header |-> IF d.is_retruth THEN d.retruth_header ELSE << >>,
      video_url      |-> d.video_url,
      timestamp_str  |-> card.timestamp_str ]

\* f"[{header}]"
Bracketed(header) == << "[" >> \o header \o << "]" >>

\* translation_parts without the [SHARED_CONTENT] marker
translation_parts_NoSharedMarker(p, original_text, card_content) ==
    ( IF p.is_retruth
      THEN << Bracketed(p.retruth_header) >> \o
           ( IF original_text # << >> THEN << original_text >> ELSE << >> )
      ELSE IF original_text # << >> THEN << original_text >> ELSE << >> )
    \o ( IF card_content # << >> THEN << LINK_PREVIEW, card_content >> ELSE << >> )

\* translation_parts of main(): lines 642-663
translation_parts(p, original_text, card_content) ==
    ( IF p.is_retruth
      THEN << Bracketed(p.retruth_header) >> \o
           ( IF original_text # << >> THEN << SHARED_CONTENT, original_text >> ELSE << >> )
      ELSE IF original_text # << >> THEN << original_text >> ELSE << >> )
    \o ( IF card_content # << >> THEN << LINK_PREVIEW, card_content >> ELSE << >> )

\* a description without the cut at DESCRIPTION_LIMIT
description_CutOriginalOnly(p, translated_text, original) ==
    LET original_text == IF original # << >> /\ Len(original) > ORIGINAL_BUDGET
                         THEN SubSeq(original, 1, ORIGINAL_BUDGET) \o CONTINUE_AT_SOURCE
                         ELSE original
    IN  Join(( IF p.is_retruth /\ translated_text = << >>
               THEN << BOLD \o p.retruth_header \o BOLD, RULE >>
               ELSE << >> )
             \o ( IF translated_text # << >> THEN << translated_text >>
                  ELSE IF original_text # << >> THEN << original_text >>
                  ELSE << >> ))

\* the description post_to_discord gives the embed: lines 373-398
description(p, translated_text, original) ==
    LET original_text == IF original # << >> /\ Len(original) > ORIGINAL_BUDGET
                         THEN SubSeq(original, 1, ORIGINAL_BUDGET) \o CONTINUE_AT_SOURCE
                         ELSE original
        description_parts ==
            ( IF p.is_retruth /\ translated_text = << >>
              THEN << BOLD \o p.retruth_header \o BOLD, RULE >>
              ELSE << >> )
            \o ( IF translated_text # << >> THEN << translated_text >>
                 ELSE IF original_text # << >> THEN << original_text >>
                 ELSE << >> )
        full_description == Join(description_parts)
    IN  IF Len(full_description) > DESCRIPTION_LIMIT
        THEN SubSeq(full_description, 1, DESCRIPTION_CUT) \o ELLIPSIS
        ELSE full_description

\* the embed post_to_discord builds: description, image, video field and footer
embed(p, translated_text, original) ==
    [ description |-> description(p, translated_text, original),
      image       |-> IF p.media_urls # << >> THEN p.media_urls[1] ELSE NoUrl,
      video       |-> p.video_url,
      footer      |-> footer(p.timestamp_str, BUDAPEST_TIME) ]

\* the values of the pipeline variables outside the pipeline
NoStage1 == [ content |-> << >>, media_urls |-> << >>, timestamp_str |-> << >> ]

NoPost == merge(NoStage1, ZeroDetails)

NoEmbed == [ description |-> << >>, image |-> NoUrl, video |-> NoUrl, footer |-> << >> ]

----------------------------------------------------------------------------
(* The pages of the environment *)

\* texts a card or a post page may show
NICE ==
    << "n", "i", "c", "e" >>

COOL ==
    << "c", "o", "o", "l" >>

URL_ONLY ==
    << "h", "t", "t", "p", "s", ":", "/", "/", "t", ".", "c", "o", "/", "a" >>

LONG_TEXT ==
    << "M", "a", "k", "e", " ", "i", "t", " ", "g", "r", "e", "a", "t" >>

RETRUTH_HEADER ==
    << "R", "e", "T", "r", "u", "t", "h", "e", "d", " ", "@", "F", "o", "o" >>

CARD_TEXT ==
    << "X", " ", "p", "o", "s", "t" >>

\* what the translation service replies
REPLY ==
    << "s", "z", "i", "a" >>

\* the text of the first div of a card that holds "@" and "ET": the time alone,
\* the time among other text of the card, a text without the year
TIME_ALONE ==
    << "J", "a", "n", "u", "a", "r", "y", " ", "5", ",", " ", "2", "0", "2", "5", " ",
       "@", " ", "3", ":", "0", "4", " ", "P", "M", " ", "E", "T" >>

TIME_AMONG_TEXT ==
    << "v", "i", "a", " ", "J", "a", "n", " ", "1", "2", ",", " ", "2", "0", "2", "5",
       " ", "@", " ", "1", "1", ":", "3", "0", " ", "A", "M", " ", "E", "T", " ", "+" >>

TIME_WITHOUT_YEAR ==
    << "J", "a", "n", " ", "1", "2", " ", "@", " ", "1", "1", ":", "3", "0", " ", "E",
       "T" >>

\* the Stage-1 fields of a card: content, media_urls and timestamp_str (a card
\* without a time div has timestamp_str "")
Stage1Posts(e) ==
    IF e = "pipeline"
    THEN [ content       : { << >>, NICE, URL_ONLY, LONG_TEXT },
           media_urls    : { << >>, << "r1" >> },
           timestamp_str : { TIME_ALONE } ]
         \cup
         [ content       : { NICE },
           media_urls    : { << >> },
           timestamp_str : { << >>, TIME_AMONG_TEXT, TIME_WITHOUT_YEAR } ]
    ELSE IF e = "live"
    THEN { [ content |-> << "a" >>, media_urls |-> << >>, timestamp_str |-> << >> ] }
    ELSE { [ content |-> NICE, media_urls |-> << >>, timestamp_str |-> TIME_ALONE ] }

\* what the post's page on Truth Social yields when the scrape succeeds
DetailPages(e) ==
    IF e = "pipeline"
    THEN { d \in [ is_retruth : BOOLEAN, retruth_header : { << >>, RETRUTH_HEADER },
                   full_text : { << >>, COOL, URL_ONLY, LONG_TEXT },
                   media_urls : { << >>, << "t1", "t2" >> },
                   video_url : { NoUrl, "v1" },
                   card_content : { << >>, CARD_TEXT } ] :
               d.is_retruth <=> d.retruth_header # << >> }
    ELSE { ZeroDetails }

\* whether the scrape may fail
ScrapeFailures(e) == IF e = "pipeline" THEN BOOLEAN ELSE { FALSE }

\* whether a monitor_feed call returns without the cards of the page: free, or,
\* where the steps of the call are modelled, what these steps came to
FetchFailures(e, got) == IF e = "watchdog" THEN { ~got } ELSE BOOLEAN

\* the same for a scrape_details call
DetailFailures(e, got) == IF e = "watchdog" THEN { ~got } ELSE ScrapeFailures(e)

\* what the translation service does when called
ServiceAnswers(e) == IF e = "pipeline" THEN { "ok", "error" } ELSE { "ok" }

----------------------------------------------------------------------------
(* Initial state: the process has not started yet *)

Init ==
    /\ pc = "load"
    /\ FORCE_REPROCESS \in BOOLEAN
    /\ state_file \in InitialFiles
    /\ check_last_id = None
    /\ posts = << >>
    /\ new_posts = << >>
    /\ idx = 0
    /\ attempts = 0
    /\ outcome = "none"
    /\ exit_cause = "none"
    /\ cycle = 0
    /\ runs = 1
    /\ delivered = {}
    /\ failed_ids = {}
    /\ unsaved_ids = {}
    /\ handed = {}
    /\ load_failed = FALSE
    /\ fetch_failed = FALSE
    /\ repeat = "none"
    /\ past = {}
    /\ crash_x = None
    /\ crash_state = None
    /\ feed_desc = TRUE
    /\ env = "loop"
    /\ stage1 = NoStage1
    /\ details = ZeroDetails
    /\ post = NoPost
    /\ full_input = << >>
    /\ translated = << >>
    /\ sent = NoEmbed
    /\ scrape_failed = FALSE
    /\ service_called = FALSE
    /\ service_failed = FALSE
    /\ call = "none"
    /\ browsers = 0
    /\ alarm = "off"
    /\ handler = FALSE
    /\ extracted = FALSE
    /\ expired = FALSE

----------------------------------------------------------------------------
(* Actions *)

\* positions inside the while loop of main()
LoopPcs == { "fetch", "filter", "scrape", "translate", "deliver", "save", "sleep" }

\* positions inside the for loop over new_posts
PostPcs == { "scrape", "translate", "deliver", "save" }

\* answers of webhook.execute(): 200/204, 429, another status, an exception
SinkAnswers == { "ok", "rate_limited", "failed", "exception" }

\* outcomes of state_file.write_text: written, open failed, opened (truncated) and write failed
WriteOutcomes == { "ok", "unchanged", "truncated" }

\* last_id = state_manager.load_last_id(); check_last_id = None if FORCE_REPROCESS
Load ==
    /\ pc = "load"
    /\ \E readable \in BOOLEAN :
          /\ check_last_id' = IF FORCE_REPROCESS THEN None
                              ELSE load_last_id(state_file, readable)
          /\ load_failed' = (state_file # None /\ ~readable)
    /\ pc' = "fetch"
    /\ UNCHANGED pipe
    /\ UNCHANGED << env, FORCE_REPROCESS, state_file, prog, exit_cause, cycle, runs,
                    delivered, failed_ids, unsaved_ids, handed, fetch_failed, repeat,
                    past, crash_x, crash_state, feed_desc >>
    /\ UNCHANGED watch

\* posts = scraper.monitor_feed(); posts.reverse()
Fetch ==
    /\ pc = "fetch"
    /\ cycle < MaxCycles
    /\ (env = "watchdog") => (call = "mf_return")
    /\ \E s \in Feeds(env), fails \in FetchFailures(env, extracted) :
          /\ posts' = Reverse(monitor_feed(s, fails))
          /\ fetch_failed' = fails
          /\ feed_desc' = (feed_desc /\ Descending(monitor_feed(s, fails)))
          /\ repeat' = IF repeat = "armed" /\ posts' = posts THEN "same" ELSE "none"
    /\ cycle' = IF env = "live" THEN cycle ELSE cycle + 1
    /\ pc' = "filter"
    /\ UNCHANGED pipe
    /\ UNCHANGED << env, FORCE_REPROCESS, state_file, check_last_id, new_posts, idx,
                    attempts, outcome, exit_cause, runs, hist, past, crash_x, crash_state >>
    /\ call' = "none"
    /\ extracted' = FALSE
    /\ UNCHANGED << browsers, alarm, handler, expired >>

\* the computation of new_posts and the test "if new_posts"
Filter ==
    /\ pc = "filter"
    /\ new_posts' = NewPosts(posts, check_last_id, FORCE_REPROCESS)
    /\ IF new_posts' # << >>
       THEN idx' = 1 /\ pc' = "scrape"
       ELSE idx' = 0 /\ pc' = "sleep"
    /\ UNCHANGED pipe
    /\ UNCHANGED << env, FORCE_REPROCESS, state_file, check_last_id, posts, attempts,
                    outcome, exit_cause, cycle, runs, hist, fetch_failed, repeat, past,
                    crash_x, crash_state, feed_desc >>
    /\ UNCHANGED watch

\* post = new_posts[idx]; details = scraper.scrape_details(post['url']); the merge
ScrapeDetails ==
    /\ pc = "scrape"
    /\ (env = "watchdog") => (call = "sd_return")
    /\ \E card \in Stage1Posts(env), page \in DetailPages(env),
          fails \in DetailFailures(env, extracted) :
          /\ stage1' = card
          /\ details' = scrape_details(page, fails)
          /\ scrape_failed' = fails
          /\ post' = merge(card, details')
    /\ pc' = "translate"
    /\ UNCHANGED << full_input, translated, sent, service_called, service_failed >>
    /\ UNCHANGED << env, FORCE_REPROCESS, state_file, check_last_id, prog, exit_cause,
                    cycle, runs, hist, fetch_failed, repeat, past, crash_x, crash_state,
                    feed_desc >>
    /\ call' = "none"
    /\ extracted' = FALSE
    /\ UNCHANGED << browsers, alarm, handler, expired >>

\* original_text, the composite prompt and translator.translate_to_hungarian
Translate ==
    /\ pc = "translate"
    /\ LET original_text == clean_text(post.content)
           parts == translation_parts(post, original_text, details.card_content)
       IN  \E answer \in ServiceAnswers(env) :
              /\ full_input' = Join(parts)
              /\ translated' = IF parts # << >>
                               THEN translate_to_hungarian(full_input', answer, REPLY)
                               ELSE << >>
              /\ service_called' = (parts # << >> /\ calls_service(full_input'))
              /\ service_failed' = (service_called' /\ answer = "error")
    /\ pc' = "deliver"
    /\ UNCHANGED << stage1, details, post, sent, scrape_failed >>
    /\ UNCHANGED << env, FORCE_REPROCESS, state_file, check_last_id, prog, exit_cause,
                    cycle, runs, hist, fetch_failed, repeat, past, crash_x, crash_state,
                    feed_desc >>
    /\ UNCHANGED watch

\* discord_poster.post_to_discord(post, translated, original_text):
\* one webhook.execute(), whose status or exception is logged
post_to_discord ==
    /\ pc = "deliver"
    /\ \E r \in SinkAnswers :
          /\ outcome' = r
          /\ failed_ids' = IF r \in { "failed", "exception" }
                           THEN failed_ids \cup { new_posts[idx] }
                           ELSE failed_ids
    /\ attempts' = 1
    /\ sent' = embed(post, translated, clean_text(post.content))
    /\ delivered' = delivered \cup { new_posts[idx] }
    /\ pc' = "save"
    /\ UNCHANGED << stage1, details, post, full_input, translated, scrape_failed,
                    service_called, service_failed >>
    /\ UNCHANGED << env, FORCE_REPROCESS, state_file, check_last_id, posts, new_posts,
                    idx, exit_cause, cycle, runs, unsaved_ids, handed, load_failed,
                    fetch_failed, repeat, past, crash_x, crash_state, feed_desc >>
    /\ UNCHANGED watch

\* a loop that calls save_last_id once per batch, after its last post
save_last_id_OncePerBatch ==
    /\ pc = "save"
    /\ check_last_id' = IF idx < Len(new_posts) THEN check_last_id ELSE new_posts[idx]
    /\ state_file' = IF idx < Len(new_posts) THEN state_file ELSE new_posts[idx]
    /\ handed' = IF idx < Len(new_posts) THEN handed ELSE handed \cup { new_posts[idx] }
    /\ attempts' = 0
    /\ outcome' = "none"
    /\ stage1' = NoStage1
    /\ details' = ZeroDetails
    /\ post' = NoPost
    /\ full_input' = << >>
    /\ translated' = << >>
    /\ sent' = NoEmbed
    /\ scrape_failed' = FALSE
    /\ service_called' = FALSE
    /\ service_failed' = FALSE
    /\ IF idx < Len(new_posts)
       THEN idx' = idx + 1 /\ pc' = "scrape"
       ELSE idx' = idx /\ pc' = "sleep"
    /\ UNCHANGED << env, FORCE_REPROCESS, posts, new_posts, exit_cause, cycle, runs,
                    delivered, failed_ids, unsaved_ids, load_failed, fetch_failed, repeat,
                    past, crash_x, crash_state, feed_desc >>
    /\ UNCHANGED watch

\* check_last_id = post['id']; state_manager.save_last_id(check_last_id); next post
save_last_id ==
    /\ pc = "save"
    /\ check_last_id' = new_posts[idx]
    /\ \E w \in WriteOutcomes :
          /\ state_file' = CASE w = "ok"        -> new_posts[idx]
                             [] w = "unchanged" -> state_file
                             [] w = "truncated" -> << >>
          /\ unsaved_ids' = IF w = "ok" THEN unsaved_ids
                            ELSE unsaved_ids \cup { new_posts[idx] }
    /\ handed' = handed \cup { new_posts[idx] }
    /\ attempts' = 0
    /\ outcome' = "none"
    /\ stage1' = NoStage1
    /\ details' = ZeroDetails
    /\ post' = NoPost
    /\ full_input' = << >>
    /\ translated' = << >>
    /\ sent' = NoEmbed
    /\ scrape_failed' = FALSE
    /\ service_called' = FALSE
    /\ service_failed' = FALSE
    /\ IF idx < Len(new_posts)
       THEN idx' = idx + 1 /\ pc' = "scrape"
       ELSE idx' = idx /\ pc' = "sleep"
    /\ UNCHANGED << env, FORCE_REPROCESS, posts, new_posts, exit_cause, cycle, runs,
                    delivered, failed_ids, load_failed, fetch_failed, repeat, past,
                    crash_x, crash_state, feed_desc >>
    /\ UNCHANGED watch

\* time.sleep(CHECK_INTERVAL) and back to the top of the loop
Sleep ==
    /\ pc = "sleep"
    /\ pc' = "fetch"
    /\ repeat' = "armed"
    /\ fetch_failed' = FALSE
    /\ UNCHANGED pipe
    /\ UNCHANGED << env, FORCE_REPROCESS, state_file, check_last_id, prog, exit_cause,
                    cycle, runs, hist, past, crash_x, crash_state, feed_desc >>
    /\ UNCHANGED watch

\* the id that has been delivered but not yet handed to save_last_id, when
\* last_id.txt holds what the run loaded or last saved
InFlight ==
    IF pc = "save" /\ ~FORCE_REPROCESS /\ unsaved_ids = {} /\ state_file = check_last_id
    THEN new_posts[idx]
    ELSE None

\* main() is left: the process memory is gone, last_id.txt stays
Leave(cause) ==
    /\ pc \in LoopPcs
    /\ pc' = "exited"
    /\ exit_cause' = cause
    /\ crash_x' = InFlight
    /\ crash_state' = IF InFlight # None THEN state_file ELSE None
    /\ past' = past \cup delivered
    /\ check_last_id' = None
    /\ posts' = << >>
    /\ new_posts' = << >>
    /\ idx' = 0
    /\ attempts' = 0
    /\ outcome' = "none"
    /\ delivered' = {}
    /\ failed_ids' = {}
    /\ unsaved_ids' = {}
    /\ handed' = {}
    /\ load_failed' = FALSE
    /\ fetch_failed' = FALSE
    /\ repeat' = "none"
    /\ stage1' = NoStage1
    /\ details' = ZeroDetails
    /\ post' = NoPost
    /\ full_input' = << >>
    /\ translated' = << >>
    /\ sent' = NoEmbed
    /\ scrape_failed' = FALSE
    /\ service_called' = FALSE
    /\ service_failed' = FALSE
    /\ UNCHANGED << env, FORCE_REPROCESS, state_file, cycle, runs, feed_desc >>
    /\ call' = "none"
    /\ browsers' = 0
    /\ alarm' = "off"
    /\ handler' = FALSE
    /\ extracted' = FALSE
    /\ expired' = FALSE

\* except KeyboardInterrupt: log and return
KeyboardInterrupt == Leave("KeyboardInterrupt")

\* except Exception as e: log and raise
UnexpectedException == Leave("exception")

\* the process is started again (if __name__ == "__main__": main())
Restart ==
    /\ pc = "exited"
    /\ runs < MaxRuns
    /\ runs' = runs + 1
    /\ pc' = "load"
    /\ exit_cause' = "none"
    /\ UNCHANGED pipe
    /\ UNCHANGED << env, FORCE_REPROCESS, state_file, check_last_id, prog, cycle,
                    hist, fetch_failed, repeat, past, crash_x, crash_state, feed_desc >>
    /\ UNCHANGED watch

Next ==
    \/ Load
    \/ Fetch
    \/ Filter
    \/ ScrapeDetails
    \/ Translate
    \/ post_to_discord
    \/ save_last_id
    \/ Sleep
    \/ KeyboardInterrupt
    \/ UnexpectedException
    \/ Restart

Spec == Init /\ [][Next]_vars

----------------------------------------------------------------------------
(* One cycle up to the for loop: main() fetches a snapshot of up to           *)
(* MaxFilterFeed cards and computes new_posts, with any value check_last_id   *)
(* can hold at the top of the loop: None, "", non-numeric text, "0" or an id. *)

FilterInit ==
    /\ pc = "fetch"
    /\ FORCE_REPROCESS \in BOOLEAN
    /\ check_last_id \in
          IF FORCE_REPROCESS THEN { None } \cup FilterIds
          ELSE { None, << >>, << NonDigit >> } \cup FilterIds
    /\ state_file = IF FORCE_REPROCESS THEN None ELSE check_last_id
    /\ posts = << >>
    /\ feed_desc = TRUE
    /\ new_posts = << >>
    /\ idx = 0
    /\ attempts = 0
    /\ outcome = "none"
    /\ exit_cause = "none"
    /\ cycle = 0
    /\ runs = 1
    /\ delivered = {}
    /\ failed_ids = {}
    /\ unsaved_ids = {}
    /\ handed = {}
    /\ load_failed = FALSE
    /\ fetch_failed = FALSE
    /\ repeat = "none"
    /\ past = {}
    /\ crash_x = None
    /\ crash_state = None
    /\ env = "filter"
    /\ stage1 = NoStage1
    /\ details = ZeroDetails
    /\ post = NoPost
    /\ full_input = << >>
    /\ translated = << >>
    /\ sent = NoEmbed
    /\ scrape_failed = FALSE
    /\ service_called = FALSE
    /\ service_failed = FALSE
    /\ call = "none"
    /\ browsers = 0
    /\ alarm = "off"
    /\ handler = FALSE
    /\ extracted = FALSE
    /\ expired = FALSE

FilterNext ==
    \/ Fetch
    \/ Filter

FilterSpec == FilterInit /\ [][FilterNext]_vars

----------------------------------------------------------------------------
(* The pipeline on its own: main() has loaded "5", fetched a snapshot with one *)
(* or two newer posts and filtered it; the pages of the posts, the scrape,    *)
(* the translation service, the sink and the state file are free.             *)

PipelineInit ==
    /\ pc = "scrape"
    /\ FORCE_REPROCESS = FALSE
    /\ state_file = << 5 >>
    /\ check_last_id = << 5 >>
    /\ posts \in { << << 9 >> >>, << << 9 >>, << 1, 0 >> >> }
    /\ new_posts = NewPosts(posts, check_last_id, FORCE_REPROCESS)
    /\ idx = 1
    /\ attempts = 0
    /\ outcome = "none"
    /\ exit_cause = "none"
    /\ cycle = 1
    /\ runs = 1
    /\ delivered = {}
    /\ failed_ids = {}
    /\ unsaved_ids = {}
    /\ handed = {}
    /\ load_failed = FALSE
    /\ fetch_failed = FALSE
    /\ repeat = "none"
    /\ past = {}
    /\ crash_x = None
    /\ crash_state = None
    /\ feed_desc = TRUE
    /\ env = "pipeline"
    /\ stage1 = NoStage1
    /\ details = ZeroDetails
    /\ post = NoPost
    /\ full_input = << >>
    /\ translated = << >>
    /\ sent = NoEmbed
    /\ scrape_failed = FALSE
    /\ service_called = FALSE
    /\ service_failed = FALSE
    /\ call = "none"
    /\ browsers = 0
    /\ alarm = "off"
    /\ handler = FALSE
    /\ extracted = FALSE
    /\ expired = FALSE

PipelineNext ==
    \/ ScrapeDetails
    \/ Translate
    \/ post_to_discord
    \/ save_last_id

PipelineSpec == PipelineInit /\ [][PipelineNext]_vars

----------------------------------------------------------------------------
(* The notification body on its own: main() is about to call post_to_discord  *)
(* for the only post of a batch.  The post has a link preview, so the prompt  *)
(* was sent to the translation service, whose reply is free: nothing, a few   *)
(* words, or a text around DESCRIPTION_LIMIT; the text of the post is empty,  *)
(* short, or around ORIGINAL_BUDGET and DESCRIPTION_LIMIT characters long.    *)

\* a text of n characters
Filler(n) == [ i \in 1..n |-> "x" ]

BodyCards ==
    [ content       : { << >>, NICE, Filler(ORIGINAL_BUDGET), Filler(ORIGINAL_BUDGET + 1),
                        Filler(DESCRIPTION_LIMIT + 1) },
      media_urls    : { << >> },
      timestamp_str : { TIME_ALONE } ]

BodyPages ==
    { [ is_retruth |-> h # << >>, retruth_header |-> h, full_text |-> << >>,
        media_urls |-> << >>, video_url |-> NoUrl, card_content |-> CARD_TEXT ] :
      h \in { << >>, RETRUTH_HEADER } }

\* response.content[0].text
BodyReplies ==
    { << " " >>, REPLY, Filler(DESCRIPTION_LIMIT), Filler(DESCRIPTION_LIMIT + 1) }

BodyInit ==
    /\ pc = "deliver"
    /\ FORCE_REPROCESS = FALSE
    /\ state_file = << 5 >>
    /\ check_last_id = << 5 >>
    /\ posts = << << 9 >> >>
    /\ new_posts = NewPosts(posts, check_last_id, FORCE_REPROCESS)
    /\ idx = 1
    /\ attempts = 0
    /\ outcome = "none"
    /\ exit_cause = "none"
    /\ cycle = 1
    /\ runs = 1
    /\ delivered = {}
    /\ failed_ids = {}
    /\ unsaved_ids = {}
    /\ handed = {}
    /\ load_failed = FALSE
    /\ fetch_failed = FALSE
    /\ repeat = "none"
    /\ past = {}
    /\ crash_x = None
    /\ crash_state = None
    /\ feed_desc = TRUE
    /\ env = "body"
    /\ \E card \in BodyCards, page \in BodyPages, reply \in BodyReplies :
          /\ stage1 = card
          /\ details = scrape_details(page, FALSE)
          /\ post = merge(card, details)
          /\ full_input = Join(translation_parts(post, clean_text(post.content),
                                                 details.card_content))
          /\ translated = strip(reply)
    /\ sent = NoEmbed
    /\ scrape_failed = FALSE
    /\ service_called = TRUE
    /\ service_failed = FALSE
    /\ call = "none"
    /\ browsers = 0
    /\ alarm = "off"
    /\ handler = FALSE
    /\ extracted = FALSE
    /\ expired = FALSE

BodyNext ==
    \/ post_to_discord
    \/ save_last_id

BodySpec == BodyInit /\ [][BodyNext]_vars

----------------------------------------------------------------------------
(* Inside monitor_feed and scrape_details: the browser and the SIGALRM timer. *)
(* A call of the browser library returns, raises, or blocks until the timer   *)
(* expires, and the handler then raises TimeoutError where the call stands.   *)
(* The timer can also expire between two statements while it is armed.        *)
(* Leaving `with sync_playwright()' stops the driver and with it the browsers *)
(* it launched, unless the exit itself is interrupted.                        *)

\* the variables these steps leave alone
outside == << pc, FORCE_REPROCESS, state_file, check_last_id, exit_cause, cycle, runs,
              env, fetch_failed, repeat, past, crash_x, crash_state, feed_desc,
              prog, hist, pipe >>

\* what a call of the browser library can do: return, raise, or block until
\* the timer expires
Outcomes == { "ok", "error" } \cup ( IF alarm = "armed" THEN { "timeout" } ELSE { } )

\* leaving the with block: it completes unless the timer interrupts it
ExitOutcomes == { "ok" } \cup ( IF alarm = "armed" THEN { "timeout" } ELSE { } )

\* one library call: on return the position is to_ok, the live browsers are
\* b_ok and, if got, the result is assigned; an exception leads to to_fail
Step(outs, to_ok, to_fail, b_ok, got) ==
    /\ \E o \in outs :
          /\ call' = IF o = "ok" THEN to_ok ELSE to_fail
          /\ browsers' = IF o = "ok" THEN b_ok ELSE browsers
          /\ extracted' = (extracted \/ (o = "ok" /\ got))
          /\ alarm' = IF o = "timeout" THEN "off" ELSE alarm
          /\ expired' = (expired \/ o = "timeout")
    /\ UNCHANGED handler
    /\ UNCHANGED outside

\* monitor_feed: signal.signal(SIGALRM, handler); signal.alarm(180)
monitor_feed_arm ==
    /\ pc = "fetch"
    /\ env = "watchdog"
    /\ cycle < MaxCycles
    /\ call = "none"
    /\ call' = "mf_start"
    /\ handler' = TRUE
    /\ alarm' = "armed"
    /\ UNCHANGED << browsers, extracted, expired >>
    /\ UNCHANGED outside

\* with sync_playwright() as p: entering; a failure goes to the outer except
monitor_feed_start ==
    /\ call = "mf_start"
    /\ Step(Outcomes, "mf_launch", "mf_cancel", browsers, FALSE)

\* browser = p.chromium.launch(...); a failure leaves the with block
monitor_feed_launch ==
    /\ call = "mf_launch"
    /\ Step(Outcomes, "mf_context", "mf_exit", browsers + 1, FALSE)

\* browser.new_context(...); context.new_page(): before the inner try, so a
\* failure leaves the with block without browser.close()
monitor_feed_context ==
    /\ call = "mf_context"
    /\ Step(Outcomes, "mf_scrape", "mf_exit", browsers, FALSE)

\* the inner try: goto, wait_for_selector, sleep, evaluate, posts = extracted_data;
\* a failure is logged by the inner except
monitor_feed_scrape ==
    /\ call = "mf_scrape"
    /\ Step(Outcomes, "mf_close", "mf_close", browsers, TRUE)

\* finally: browser.close(); a failure is logged as a warning
monitor_feed_close ==
    /\ call = "mf_close"
    /\ Step(Outcomes, "mf_exit", "mf_exit", browsers - 1, FALSE)

\* leaving the with block; an exception goes to the outer except
monitor_feed_exit ==
    /\ call = "mf_exit"
    /\ Step(ExitOutcomes, "mf_cancel", "mf_cancel", 0, FALSE)

\* signal.alarm(0), after the outer try
monitor_feed_cancel ==
    /\ call = "mf_cancel"
    /\ call' = "mf_return"
    /\ alarm' = "off"
    /\ UNCHANGED << browsers, handler, extracted, expired >>
    /\ UNCHANGED outside

\* scrape_details: signal.alarm(90); no handler is installed here
scrape_details_arm ==
    /\ pc = "scrape"
    /\ env = "watchdog"
    /\ call = "none"
    /\ call' = "sd_start"
    /\ alarm' = "armed"
    /\ UNCHANGED << browsers, handler, extracted, expired >>
    /\ UNCHANGED outside

\* with sync_playwright() as p: entering
scrape_details_start ==
    /\ call = "sd_start"
    /\ Step(Outcomes, "sd_launch", "sd_cancel", browsers, FALSE)

\* browser = p.chromium.launch(...)
scrape_details_launch ==
    /\ call = "sd_launch"
    /\ Step(Outcomes, "sd_context", "sd_exit", browsers + 1, FALSE)

\* browser.new_context(...); context.new_page()
scrape_details_context ==
    /\ call = "sd_context"
    /\ Step(Outcomes, "sd_scrape", "sd_exit", browsers, FALSE)

\* the inner tries: goto, wait_for_selector, evaluate, details.update(evaluated)
scrape_details_scrape ==
    /\ call = "sd_scrape"
    /\ Step(Outcomes, "sd_exit", "sd_exit", browsers, TRUE)

\* leaving the with block; the browser has not been closed yet
scrape_details_exit ==
    /\ call = "sd_exit"
    /\ Step(ExitOutcomes, "sd_cancel", "sd_cancel", 0, FALSE)

\* signal.alarm(0), after the outer try
scrape_details_cancel ==
    /\ call = "sd_cancel"
    /\ call' = "sd_close"
    /\ alarm' = "off"
    /\ UNCHANGED << browsers, handler, extracted, expired >>
    /\ UNCHANGED outside

\* if 'browser' in locals(): browser.close(), a failure logged as a warning
scrape_details_close ==
    /\ call = "sd_close"
    /\ Step(Outcomes, "sd_return", "sd_return", 0, FALSE)

\* the timer expires after the outer try of monitor_feed or scrape_details and
\* before signal.alarm(0): TimeoutError leaves the call and reaches main's
\* except Exception, which logs and raises
TimeoutInMain ==
    /\ call \in { "mf_cancel", "sd_cancel" }
    /\ alarm = "armed"
    /\ handler
    /\ Leave("TimeoutError")

WatchdogInit ==
    /\ pc = "fetch"
    /\ FORCE_REPROCESS = FALSE
    /\ state_file = << 5 >>
    /\ check_last_id = << 5 >>
    /\ posts = << >>
    /\ new_posts = << >>
    /\ idx = 0
    /\ attempts = 0
    /\ outcome = "none"
    /\ exit_cause = "none"
    /\ cycle = 0
    /\ runs = 1
    /\ delivered = {}
    /\ failed_ids = {}
    /\ unsaved_ids = {}
    /\ handed = {}
    /\ load_failed = FALSE
    /\ fetch_failed = FALSE
    /\ repeat = "none"
    /\ past = {}
    /\ crash_x = None
    /\ crash_state = None
    /\ feed_desc = TRUE
    /\ env = "watchdog"
    /\ stage1 = NoStage1
    /\ details = ZeroDetails
    /\ post = NoPost
    /\ full_input = << >>
    /\ translated = << >>
    /\ sent = NoEmbed
    /\ scrape_failed = FALSE
    /\ service_called = FALSE
    /\ service_failed = FALSE
    /\ call = "none"
    /\ browsers = 0
    /\ alarm = "off"
    /\ handler = FALSE
    /\ extracted = FALSE
    /\ expired = FALSE

WatchdogNext ==
    \/ monitor_feed_arm
    \/ monitor_feed_start
    \/ monitor_feed_launch
    \/ monitor_feed_context
    \/ monitor_feed_scrape
    \/ monitor_feed_close
    \/ monitor_feed_exit
    \/ monitor_feed_cancel
    \/ Fetch
    \/ Filter
    \/ scrape_details_arm
    \/ scrape_details_start
    \/ scrape_details_launch
    \/ scrape_details_context
    \/ scrape_details_scrape
    \/ scrape_details_exit
    \/ scrape_details_cancel
    \/ scrape_details_close
    \/ ScrapeDetails
    \/ Translate
    \/ post_to_discord
    \/ save_last_id
    \/ Sleep
    \/ TimeoutInMain

WatchdogSpec == WatchdogInit /\ [][WatchdogNext]_vars

----------------------------------------------------------------------------
(* The loop as long as the process runs: one run from the start of main(),    *)
(* with no bound on the number of cycles and no KeyboardInterrupt.  The       *)
(* process keeps running, so each step of main() that can be taken is taken;  *)
(* an unexpected exception may end the run at any step.                       *)

LiveInit ==
    /\ pc = "load"
    /\ FORCE_REPROCESS \in BOOLEAN
    /\ state_file \in InitialFiles
    /\ check_last_id = None
    /\ posts = << >>
    /\ new_posts = << >>
    /\ idx = 0
    /\ attempts = 0
    /\ outcome = "none"
    /\ exit_cause = "none"
    /\ cycle = 0
    /\ runs = 1
    /\ delivered = {}
    /\ failed_ids = {}
    /\ unsaved_ids = {}
    /\ handed = {}
    /\ load_failed = FALSE
    /\ fetch_failed = FALSE
    /\ repeat = "none"
    /\ past = {}
    /\ crash_x = None
    /\ crash_state = None
    /\ feed_desc = TRUE
    /\ env = "live"
    /\ stage1 = NoStage1
    /\ details = ZeroDetails
    /\ post = NoPost
    /\ full_input = << >>
    /\ translated = << >>
    /\ sent = NoEmbed
    /\ scrape_failed = FALSE
    /\ service_called = FALSE
    /\ service_failed = FALSE
    /\ call = "none"
    /\ browsers = 0
    /\ alarm = "off"
    /\ handler = FALSE
    /\ extracted = FALSE
    /\ expired = FALSE

\* the statements of main()
Program ==
    \/ Load
    \/ Fetch
    \/ Filter
    \/ ScrapeDetails
    \/ Translate
    \/ post_to_discord
    \/ save_last_id
    \/ Sleep

LiveNext ==
    \/ Program
    \/ UnexpectedException

\* main() is a sequential program that keeps running: the statement it stands at
\* is executed
Fairness == WF_vars(Program)

LiveSpec == LiveInit /\ [][LiveNext]_vars /\ Fairness

----------------------------------------------------------------------------
(* Properties *)

\* the step in which main() calls post_to_discord for new_posts[idx]
DeliverStep == pc = "deliver" /\ pc' = "save"

\* the step in which main() assigns check_last_id and calls save_last_id
SaveStep == pc = "save" /\ pc' \in { "scrape", "sleep" }

\* C1: within one run, a post is never passed to post_to_discord after a post
\* with a numerically larger id, whatever order the feed lists its cards in.
C1_AscendingDelivery ==
    [][DeliverStep => \A b \in delivered : to_int(b) <= to_int(new_posts[idx])]_vars

\* C1 holds as long as every snapshot lists its cards newest first
C1_AscendingDelivery_Descending ==
    [][(DeliverStep /\ feed_desc) =>
          \A b \in delivered : to_int(b) <= to_int(new_posts[idx])]_vars

\* C2: in normal mode no post id is passed to post_to_discord more than once
\* in one run, for any feed snapshots.
C2_ExactlyOnce ==
    [][(DeliverStep /\ ~FORCE_REPROCESS) => new_posts[idx] \notin delivered]_vars

\* C2 holds as long as every snapshot lists its cards newest first
C2_ExactlyOnce_Descending ==
    [][(DeliverStep /\ ~FORCE_REPROCESS /\ feed_desc) =>
          new_posts[idx] \notin delivered]_vars

\* C3: a cycle whose snapshot equals the previous cycle's computes an empty
\* new-set and makes no post_to_discord call (so lastProcessedId stays).
C3_IdempotentCycle ==
    repeat = "same" => (pc \notin PostPcs /\ (pc = "sleep" => new_posts = << >>))

\* C3 holds as long as every snapshot lists its cards newest first
C3_IdempotentCycle_Descending ==
    (repeat = "same" /\ feed_desc) =>
        (pc \notin PostPcs /\ (pc = "sleep" => new_posts = << >>))

\* C4: with no prior state and FORCE_REPROCESS off, the first non-empty cycle
\* processes exactly one post, the one with the numerically largest id of the
\* snapshot, and no older post.
C4_BootstrapNewest ==
    (pc \in PostPcs /\ ~FORCE_REPROCESS /\ ~Truthy(check_last_id)) =>
        /\ Len(new_posts) = 1
        /\ \A p \in SeqSet(posts) : to_int(p) <= to_int(new_posts[1])

\* C4 holds as long as every snapshot lists its cards newest first
C4_BootstrapNewest_Descending ==
    (pc \in PostPcs /\ ~FORCE_REPROCESS /\ ~Truthy(check_last_id) /\ feed_desc) =>
        /\ Len(new_posts) = 1
        /\ \A p \in SeqSet(posts) : to_int(p) <= to_int(new_posts[1])

\* a later run that loaded the state left by a run which stopped right after
\* delivering crash_x, before crash_x was persisted
AfterStaleRestart == runs > 1 /\ crash_x # None /\ pc \in LoopPcs /\ ~load_failed

\* C5: after such a restart the only post delivered a second time is crash_x,
\* and every post of the feed with a larger id is delivered, also when the
\* stale state is "no state file yet".
C5_CrashResilience ==
    AfterStaleRestart =>
        /\ \A d \in delivered : d \in past => d = crash_x
        /\ pc = "sleep" =>
              \A p \in SeqSet(posts) :
                  to_int(p) > to_int(crash_x) => p \in delivered \cup past

\* C5, in the case the claim names last: the run stopped after delivering
\* crash_x while there was no state file yet; after the restart only crash_x is
\* delivered twice and every post of the feed with a larger id is delivered
\* (here with every snapshot listing its cards newest first).
C5_CrashResilience_NoStateFile ==
    (feed_desc /\ crash_state = None) => C5_CrashResilience

\* C5 holds when, in addition, the stale state is a persisted id
C5_CrashResilience_WithState ==
    (feed_desc /\ Truthy(crash_state)) => C5_CrashResilience

\* a step keeps the in-memory and the persisted id from going down
MonotoneStep ==
    /\ (IsDigits(check_last_id) /\ IsDigits(check_last_id')) =>
           to_int(check_last_id') >= to_int(check_last_id)
    /\ (IsDigits(state_file) /\ IsDigits(state_file')) =>
           to_int(state_file') >= to_int(state_file)
    /\ (check_last_id' # check_last_id /\ IsDigits(state_file) /\ IsDigits(check_last_id')) =>
           to_int(check_last_id') >= to_int(state_file)

\* C6: no step of the poll loop replaces lastProcessedId (in memory or in
\* last_id.txt) with a numerically smaller id, the value persisted before the
\* run included.
C6_Monotone == [][(pc \in LoopPcs) => MonotoneStep]_vars

\* C6 in normal mode (FORCE_REPROCESS off, last_id.txt read without error): no
\* step of the poll loop replaces lastProcessedId, in memory or in last_id.txt,
\* with a numerically smaller id.
C6_Monotone_NormalMode ==
    [][(pc \in LoopPcs /\ ~FORCE_REPROCESS /\ ~load_failed) => MonotoneStep]_vars

\* C6 holds in normal mode as long as every snapshot lists its cards newest first
C6_Monotone_Descending ==
    [][(pc \in LoopPcs /\ ~FORCE_REPROCESS /\ ~load_failed /\ feed_desc)
           => MonotoneStep]_vars

\* C7: the process leaves the poll loop only on KeyboardInterrupt, never
\* because of an exception raised inside an iteration.
C7_LoopSurvivesException == pc = "exited" => exit_cause = "KeyboardInterrupt"

\* C8: a delivery whose first answer is rate-limited is sent again: it never
\* ends after a single attempt.
C8_RateLimitRetried == (pc = "save" /\ outcome = "rate_limited") => attempts >= 2

\* C9: a delivery that fails with a non-rate-limit outcome is not retried,
\* lastProcessedId advances to that post's id, and the post is never passed
\* to post_to_discord again in the run.
C9_FailedNotReattempted ==
    [][/\ (pc = "save" /\ outcome \in { "failed", "exception" }) => attempts = 1
       /\ (SaveStep /\ outcome \in { "failed", "exception" }) =>
              check_last_id' = new_posts[idx]
       /\ DeliverStep => new_posts[idx] \notin failed_ids]_vars

\* C9 holds as long as every snapshot lists its cards newest first
C9_FailedNotReattempted_Descending ==
    [][feed_desc =>
       /\ (pc = "save" /\ outcome \in { "failed", "exception" }) => attempts = 1
       /\ (SaveStep /\ outcome \in { "failed", "exception" }) =>
              check_last_id' = new_posts[idx]
       /\ DeliverStep => new_posts[idx] \notin failed_ids]_vars

\* C10: a failed save_last_id is not fatal, check_last_id still advances to
\* the post's id, and the post is not delivered again in the run.
C10_SaveFailureAdvances ==
    [][/\ pc = "save" => (pc' \in { "scrape", "sleep", "exited" } /\
                          (pc' # "exited" => check_last_id' = new_posts[idx]))
       /\ DeliverStep => new_posts[idx] \notin unsaved_ids]_vars

\* C10 holds as long as every snapshot lists its cards newest first
C10_SaveFailureAdvances_Descending ==
    [][feed_desc =>
       /\ pc = "save" => (pc' \in { "scrape", "sleep", "exited" } /\
                          (pc' # "exited" => check_last_id' = new_posts[idx]))
       /\ DeliverStep => new_posts[idx] \notin unsaved_ids]_vars

\* C11: when last_id.txt is missing, unreadable or holds something that is not
\* a post id (empty or non-numeric text), the cycle computes the new-set of a
\* run with no prior state (the first-run bootstrap); the corrupt value is not
\* the baseline of the filter.
C11_CorruptStateIsNoState ==
    (pc \in (PostPcs \cup { "sleep" }) /\ ~FORCE_REPROCESS /\ ~IsDigits(check_last_id)) =>
        new_posts = NewPosts(posts, None, FALSE)

Contains(s, sub) ==
    \E i \in 1..(Len(s) - Len(sub) + 1) : SubSeq(s, i, i + Len(sub) - 1) = sub

\* one of the prompt's markers occurs in s
HasMarker(s) == Contains(s, SHARED_CONTENT) \/ Contains(s, Tail(LINK_PREVIEW))

\* C14: when the translation call fails, the body of the notification is the
\* one post_to_discord builds from the post's original text (the merged
\* content), for a plain post, a retruth and a post with a link-preview card,
\* and no marker of the prompt occurs in it.
C14_TranslationFailureFallsBack ==
    (pc = "save" /\ service_failed) =>
        /\ sent.description = description(post, << >>, clean_text(post.content))
        /\ ~HasMarker(sent.description)

\* C14 holds for a plain post: no retruth, no link-preview card
C14_TranslationFailureFallsBack_Plain ==
    (pc = "save" /\ service_failed /\ ~post.is_retruth /\ details.card_content = << >>) =>
        /\ sent.description = description(post, << >>, clean_text(post.content))
        /\ ~HasMarker(sent.description)

\* text consists solely of URLs: it holds one, and fewer than 10 characters
\* remain once the URL substrings are stripped
SolelyUrl(text) ==
    /\ re_sub_urls(text) # text
    /\ Len(strip(re_sub_urls(text))) < MIN_TRANSLATABLE

\* C15: for a post whose content consists solely of a URL, retruth or not, the
\* translation service is not called and the body of the notification is the
\* one post_to_discord builds from the original text (stated here for the
\* posts without a link-preview card).
C15_UrlOnlyNotTranslated ==
    (pc = "save" /\ SolelyUrl(clean_text(post.content)) /\ details.card_content = << >>) =>
        /\ ~service_called
        /\ sent.description = description(post, << >>, clean_text(post.content))

\* C15 holds for a post that is no retruth and has no link-preview card
C15_UrlOnlyNotTranslated_Plain ==
    (/\ pc = "save" /\ SolelyUrl(clean_text(post.content))
     /\ ~post.is_retruth /\ details.card_content = << >>) =>
        /\ ~service_called
        /\ sent.description = description(post, << >>, clean_text(post.content))

\* the post is past the merge
Merged == pc \in { "translate", "deliver", "save" }

\* C16: the merged content is the detail full_text when full_text is non-empty
\* and strictly longer than the Stage-1 content, and the Stage-1 content in
\* every other case (empty, shorter, equal length).
C16_MergeContent ==
    Merged =>
        IF details.full_text # << >> /\ Len(details.full_text) > Len(stage1.content)
        THEN post.content = details.full_text
        ELSE post.content = stage1.content

\* a full_text as long as the Stage-1 content, and different, has been rejected
C16_Witness ==
    /\ Merged
    /\ details.full_text # stage1.content
    /\ Len(details.full_text) = Len(stage1.content)
    /\ post.content = stage1.content

\* C17: the merged media_urls is the detail list when that list is non-empty
\* and the Stage-1 list otherwise, never a combination of the two, and the
\* image of the notification is the first element of the chosen list.
C17_MergeMedia ==
    /\ Merged =>
           post.media_urls = IF details.media_urls # << >> THEN details.media_urls
                             ELSE stage1.media_urls
    /\ pc = "save" =>
           IF details.media_urls # << >> THEN sent.image = details.media_urls[1]
           ELSE IF stage1.media_urls # << >> THEN sent.image = stage1.media_urls[1]
           ELSE sent.image = NoUrl

\* both sources had media and the notification carries the first detail image
C17_Witness ==
    /\ pc = "save"
    /\ details.media_urls # << >> /\ stage1.media_urls # << >>
    /\ sent.image = details.media_urls[1]

EndsWith(s, suffix) ==
    Len(s) >= Len(suffix) /\ SubSeq(s, Len(s) - Len(suffix) + 1, Len(s)) = suffix

\* C18: the prompt of a retruth starts with the bracketed header, followed, only
\* if the content is non-empty, by [SHARED_CONTENT] and the content; the prompt
\* of another post starts with its non-empty content; card content comes last,
\* after [LINK_PREVIEW]; and when nothing is emitted the service is not called.
C18_PromptComposition ==
    pc \in { "deliver", "save" } =>
        LET content == clean_text(post.content)
            card    == details.card_content
            nl      == << "\n" >>
            head    == IF post.is_retruth
                       THEN Bracketed(post.retruth_header) \o
                            ( IF content # << >> THEN nl \o SHARED_CONTENT \o nl \o content
                              ELSE << >> )
                       ELSE content
        IN  /\ StartsWith(full_input, head)
            /\ card # << >> => EndsWith(full_input, LINK_PREVIEW \o nl \o card)
            /\ card = << >> => full_input = head
            /\ (post.is_retruth /\ content = << >>) => ~Contains(full_input, SHARED_CONTENT)
            /\ (~post.is_retruth /\ content = << >> /\ card = << >>) =>
                   (full_input = << >> /\ ~service_called)

\* the prompt of a retruth with content and a card has been sent to the service
C18_Witness ==
    /\ pc = "save" /\ service_called
    /\ post.is_retruth /\ post.content # << >> /\ details.card_content # << >>

Ascending(s) == \A i \in 1..(Len(s) - 1) : to_int(s[i]) < to_int(s[i + 1])

\* the requirements of C19 on one step
ForceReplayStep ==
    /\ pc = "load" => check_last_id' = None
    /\ (pc = "filter" /\ pc' # "exited" /\ ~Truthy(check_last_id) /\ posts # << >>) =>
           (new_posts' = LastN(posts, 5) /\ Ascending(new_posts'))
    /\ (DeliverStep /\ Truthy(check_last_id)) =>
           to_int(new_posts[idx]) > to_int(check_last_id)

\* C19: with FORCE_REPROCESS set the persisted id is ignored, the new-set of
\* the first cycle with a non-empty snapshot is the last 5 posts of the
\* snapshot (all if fewer) in ascending id order, and once a post has been
\* processed only posts with an id strictly greater than the last one
\* processed are delivered: the replay happens once.
C19_ForceReplay == [][FORCE_REPROCESS => ForceReplayStep]_vars

\* C19 holds as long as every snapshot lists its cards newest first
C19_ForceReplay_Descending == [][(FORCE_REPROCESS /\ feed_desc) => ForceReplayStep]_vars

\* the replay of a snapshot listed newest first is its 5 largest ids (all if
\* fewer), in ascending order
C19_ForceReplay_LastFive ==
    (FORCE_REPROCESS /\ feed_desc /\ pc = "scrape" /\ ~Truthy(check_last_id)) =>
        /\ Len(new_posts) = IF Len(posts) < 5 THEN Len(posts) ELSE 5
        /\ Ascending(new_posts)
        /\ SeqSet(new_posts) \subseteq SeqSet(posts)
        /\ \A p \in SeqSet(posts) \ SeqSet(new_posts) : to_int(p) < to_int(new_posts[1])

\* C20: with a numeric id in check_last_id the new-set is exactly the fetched
\* posts whose id is numerically strictly greater, in the order of posts; with
\* a value that is no number the posts are compared with it as strings.
C20_FilterExact ==
    (pc \in { "scrape", "sleep" } /\ Truthy(check_last_id)) =>
        IF IsDigits(check_last_id)
        THEN new_posts = SelectSeq(posts, LAMBDA p : to_int(p) > to_int(check_last_id))
        ELSE new_posts = SelectSeq(posts, LAMBDA p : StrLt(check_last_id, p))

\* a snapshot with ids below, equal to and above check_last_id has been
\* filtered, "10" being new against "9"
C20_Witness ==
    /\ pc = "scrape" /\ check_last_id = << 9 >>
    /\ { << 5 >>, << 9 >>, << 1, 0 >> } \subseteq SeqSet(posts)
    /\ << 1, 0 >> \in SeqSet(new_posts) /\ << 5 >> \notin SeqSet(new_posts)

\* C21: the posts of a batch go through the pipeline one at a time: while a
\* post is enriched, translated or delivered, every post delivered before it in
\* this run has had its id passed to save_last_id, and between a delivery and
\* its save the only delivered id not yet passed to save_last_id is that post's.
C21_OneAtATime ==
    /\ Cardinality(delivered \ handed) <= 1
    /\ (pc \in { "scrape", "translate", "deliver" }) => delivered \subseteq handed
    /\ (pc = "save") => /\ new_posts[idx] \in delivered
                        /\ delivered \ handed \subseteq { new_posts[idx] }
    /\ (pc \in PostPcs) => \A k \in 1..(idx - 1) : new_posts[k] \in handed

\* the second post of a batch is delivered and not yet saved, the first is saved
C21_Witness ==
    /\ pc = "save"
    /\ idx = 2
    /\ new_posts[1] \in handed
    /\ delivered \ handed = { new_posts[2] }

\* the timestamp text of the card contains a match of the fixed pattern
HasTimestamp(text) == re_search(text, TIMESTAMP_PATTERN(Len(text))) # 0

\* C22: the footer of a delivered embed carries the matched timestamp when the
\* card's timestamp text contains a match of the pattern, and otherwise (empty
\* text, or text without a match) the current time marked as generated, never
\* the unparsed text.
C22_FooterTimestamp ==
    (pc = "save") =>
        sent.footer =
            IF HasTimestamp(stage1.timestamp_str)
            THEN FOOTER_PREFIX \o
                 group1(stage1.timestamp_str, TIMESTAMP_PATTERN(Len(stage1.timestamp_str)))
            ELSE FOOTER_PREFIX \o BUDAPEST_TIME \o GENERATED

\* C22 holds for a card whose timestamp text is empty or contains a match
C22_FooterTimestamp_ParsedOrEmpty ==
    (pc = "save" /\ (stage1.timestamp_str = << >> \/ HasTimestamp(stage1.timestamp_str))) =>
        /\ sent.footer =
              IF HasTimestamp(stage1.timestamp_str)
              THEN FOOTER_PREFIX \o
                   group1(stage1.timestamp_str, TIMESTAMP_PATTERN(Len(stage1.timestamp_str)))
              ELSE FOOTER_PREFIX \o BUDAPEST_TIME \o GENERATED
        /\ (stage1.timestamp_str = TIME_AMONG_TEXT) =>
              sent.footer = FOOTER_PREFIX \o SubSeq(TIME_AMONG_TEXT, 5, 30)

\* the lines post_to_discord puts before the text of an untranslated retruth
HeaderLines(header) == BOLD \o header \o BOLD \o << "\n" >> \o RULE

C23_Witness_LongTranslation ==
    /\ pc = "save"
    /\ Len(translated) > DESCRIPTION_LIMIT
    /\ post.is_retruth
    /\ EndsWith(sent.description, ELLIPSIS)

\* an original text over ORIGINAL_BUDGET was cut, under a retruth header
C23_Witness_LongOriginal ==
    /\ pc = "save"
    /\ translated = << >>
    /\ post.is_retruth
    /\ Len(post.content) = ORIGINAL_BUDGET + 1
    /\ EndsWith(sent.description, CONTINUE_AT_SOURCE)

\* an original text of ORIGINAL_BUDGET characters was delivered in full
C23_Witness_Header ==
    /\ pc = "save"
    /\ translated = << >>
    /\ post.is_retruth
    /\ Len(post.content) = ORIGINAL_BUDGET
    /\ sent.description = HeaderLines(RETRUTH_HEADER) \o << "\n" >> \o post.content

\* the call positions at which monitor_feed or scrape_details has returned, or
\* main is outside both
Returned == call \in { "none", "mf_return", "sd_return" }

\* C24: a browser instance is live only inside the monitor_feed or
\* scrape_details call that launched it: never two at once, and none once the
\* call has returned, hence none during translation, delivery, save or sleep.
C24_NoBrowserLeak ==
    /\ browsers <= 1
    /\ Returned => browsers = 0

\* C24 holds as long as the timer has not expired in the run
C24_NoBrowserLeak_NoExpiry ==
    ~expired => C24_NoBrowserLeak

\* C25: the timer is armed only inside a call of monitor_feed or scrape_details
\* and is off once the call has returned; when it is armed, the TimeoutError
\* handler is installed; and an expiry never leaves the call to reach main.
C25_WatchdogContained ==
    /\ Returned => alarm = "off"
    /\ (pc \notin { "fetch", "scrape" }) => alarm = "off"
    /\ (alarm = "armed") => handler
    /\ exit_cause # "TimeoutError"

\* the first three parts of C25 hold
C25_WatchdogContained_ArmedInsideOnly ==
    /\ Returned => alarm = "off"
    /\ (pc \notin { "fetch", "scrape" }) => alarm = "off"
    /\ (alarm = "armed") => handler

\* an expiry inside a library call does not leave the call
C25_WatchdogContained_InsideTry ==
    [][(alarm = "armed" /\ alarm' = "off" /\ expired' /\ ~expired /\ pc' # "exited")
          => (pc' = pc /\ call' \notin { "none" })]_vars

\* post x is in the snapshot main() is about to filter and its id is numerically
\* greater than the numeric check_last_id
VisibleNewer(x) ==
    /\ pc = "filter"
    /\ x \in SeqSet(posts)
    /\ IsDigits(check_last_id)
    /\ to_int(x) > to_int(check_last_id)

\* main() has just called post_to_discord for post x
Attempted(x) == pc = "save" /\ new_posts[idx] = x

\* C26: while the process runs, a post that is in the snapshot with an id
\* numerically greater than check_last_id is passed to post_to_discord
\* eventually; the loop does not keep polling and pass it over.
C26_EventualDelivery ==
    \A x \in Ids : VisibleNewer(x) ~> (Attempted(x) \/ pc = "exited")

\* a post that was in the snapshot and newer is delivered as the second of its batch
C26_Witness ==
    /\ pc = "save"
    /\ idx = 2
    /\ IsDigits(check_last_id)
    /\ to_int(new_posts[2]) > to_int(check_last_id)
    /\ new_posts[2] \in SeqSet(posts)

====
